---- MODULE Spec2Model ----
(***************************************************************************)
(* treeclip: traversal-and-extraction engine.                              *)
(*                                                                         *)
(* Text is modelled bit-exactly as sequences of one-character strings:     *)
(* file names, path displays, glob patterns, file contents and the output  *)
(* artifact are all character sequences.  A path is a record               *)
(* [abs, names]: abs says whether it starts with the root directory, and   *)
(* names is the sequence of its components (a leading "." component is     *)
(* kept, as std::path::Path keeps a leading CurDir).                       *)
(***************************************************************************)
EXTENDS Integers, Sequences, FiniteSets, TLC

\* ------------------------------------------------------------------------
\* Bounds of the model
\* ------------------------------------------------------------------------

\* largest number of input roots of one request
MaxRoots == 2

\* largest number of CLI exclusion patterns of one request
MaxCli == 2

\* largest number of lines of the ignore file
MaxIgnoreLines == 1

\* largest length of the varied file content
MaxContentLen == 2

\* the runs of execute in a row
MaxRuns == 2

\* ------------------------------------------------------------------------
\* Character sequences
\* ------------------------------------------------------------------------

IsPrefix(p, s) == Len(p) <= Len(s) /\ SubSeq(s, 1, Len(p)) = p

IsSuffix(p, s) == Len(p) <= Len(s) /\ SubSeq(s, Len(s) - Len(p) + 1, Len(s)) = p

Drop(s, n) == SubSeq(s, n + 1, Len(s))

ContainsSub(s, needle) ==
    \E i \in 0..(Len(s) - Len(needle)) : SubSeq(s, i + 1, i + Len(needle)) = needle

HasChar(s, c) == \E i \in 1..Len(s) : s[i] = c

IsWhitespace(c) == c \in {" ", "\n"}

RECURSIVE TrimEnd(_)
TrimEnd(s) ==
    IF s = <<>> THEN <<>>
    ELSE IF IsWhitespace(s[Len(s)]) THEN TrimEnd(SubSeq(s, 1, Len(s) - 1))
    ELSE s

RECURSIVE JoinWith(_, _)
JoinWith(names, sep) ==
    IF names = <<>> THEN <<>>
    ELSE IF Len(names) = 1 THEN names[1]
    ELSE names[1] \o sep \o JoinWith(Tail(names), sep)

\* all sequences over S of length at most n
RECURSIVE SeqsUpTo(_, _)
SeqsUpTo(S, n) ==
    IF n = 0 THEN {<<>>}
    ELSE LET shorter == SeqsUpTo(S, n - 1)
         IN  shorter \cup {Append(s, x) : s \in {t \in shorter : Len(t) = n - 1}, x \in S}

\* ------------------------------------------------------------------------
\* Names of the file system under study
\* ------------------------------------------------------------------------

n_dot == <<".">>
n_r == <<"r">>
n_a == <<"a", ".", "t", "x", "t">>
n_foo == <<"f", "o", "o">>
n_keep == <<"k", "e", "e", "p", ".", "t", "x", "t">>
n_b == <<"b", ".", "t", "x", "t">>
n_build == <<"b", "u", "i", "l", "d">>
n_d == <<"d", ".", "t", "x", "t">>
n_git == <<".", "g", "i", "t">>
n_cfg == <<"c", "f", "g">>
n_empty == <<"e", "m", "p", "t", "y">>
n_nff == <<"N", "o", " ", "f", "i", "l", "e", "s", " ", "f", "o", "u", "n", "d">>
n_missing == <<"m", "i", "s", "s", "i", "n", "g">>
n_ignore == <<".", "t", "r", "e", "e", "c", "l", "i", "p", "i", "g", "n", "o", "r", "e">>
n_sub == <<"s", "u", "b">>
n_temp == <<"t", "r", "e", "e", "c", "l", "i", "p", "_", "t", "e", "m", "p", ".", "t", "x", "t">>
n_n == <<"n", ".", "t", "x", "t">>
n_out == <<"o", "u", "t", ".", "t", "x", "t">>

\* ------------------------------------------------------------------------
\* Paths
\* ------------------------------------------------------------------------

AbsPath(names) == [abs |-> TRUE, names |-> names]

RelPath(names) == [abs |-> FALSE, names |-> names]

PathJoin(p, name) == [abs |-> p.abs, names |-> Append(p.names, name)]

\* Path::display
Display(p) ==
    IF p.abs THEN <<"/">> \o JoinWith(p.names, <<"/">>)
    ELSE JoinWith(p.names, <<"/">>)

\* Path::starts_with, component-wise
PathStartsWith(p, base) ==
    /\ p.abs = base.abs
    /\ IsPrefix(base.names, p.names)

\* Path::strip_prefix(base) on a path that starts with base
StripPrefix(p, base) == RelPath(Drop(p.names, Len(base.names)))

\* the process's current directory
CurrentDir == AbsPath(<<n_r>>)

\* the file-system object a spelling denotes: relative paths are resolved against
\* the current directory and "." components are dropped
RECURSIVE DropDots(_)
DropDots(names) ==
    IF names = <<>> THEN <<>>
    ELSE IF names[1] = n_dot THEN DropDots(Tail(names))
    ELSE <<names[1]>> \o DropDots(Tail(names))

Canonical(p) ==
    IF p.abs THEN AbsPath(DropDots(p.names))
    ELSE AbsPath(CurrentDir.names \o DropDots(p.names))

\* ------------------------------------------------------------------------
\* Gitignore rules (ExcludeMatcher over ignore::gitignore)
\* ------------------------------------------------------------------------

\* BufRead::lines: split at "\n"; a final "\n" ends the last line, it does not
\* start an empty one
RECURSIVE SplitLines(_)
SplitLines(s) ==
    IF s = <<>> THEN <<>>
    ELSE IF HasChar(s, "\n")
         THEN LET i == CHOOSE k \in 1..Len(s) : s[k] = "\n" /\ \A j \in 1..(k - 1) : s[j] # "\n"
              IN  <<SubSeq(s, 1, i - 1)>> \o SplitLines(Drop(s, i))
         ELSE <<s>>

\* a glob compiles unless a character class is left open
GlobValid(g) ==
    \A i \in 1..Len(g) : g[i] = "[" => \E j \in (i + 2)..Len(g) : g[j] = "]"

\* position of the "]" that closes the class opened at g[1] = "["
ClassEnd(g) == CHOOSE j \in 3..Len(g) : g[j] = "]" /\ \A k \in 3..(j - 1) : g[k] # "]"

\* glob matching with literal_separator: "*" and "?" never match "/";
\* "/**/" matches one or more separators with whole components between them and
\* a final "/**" matches a separator and everything after it
RECURSIVE GlobRest(_, _)
GlobRest(p, s) ==
    IF p = <<>> THEN s = <<>>
    ELSE IF p = <<"/", "*", "*">> THEN s # <<>> /\ s[1] = "/"
    ELSE IF IsPrefix(<<"/", "*", "*", "/">>, p)
         THEN /\ s # <<>>
              /\ s[1] = "/"
              /\ \/ GlobRest(Drop(p, 4), Tail(s))
                 \/ \E i \in 2..Len(s) : s[i] = "/" /\ GlobRest(Drop(p, 4), Drop(s, i))
    ELSE IF p[1] = "*"
         THEN \/ GlobRest(Tail(p), s)
              \/ s # <<>> /\ s[1] # "/" /\ GlobRest(p, Tail(s))
    ELSE IF p[1] = "?"
         THEN s # <<>> /\ s[1] # "/" /\ GlobRest(Tail(p), Tail(s))
    ELSE IF p[1] = "["
         THEN /\ s # <<>>
              /\ \E k \in 2..(ClassEnd(p) - 1) : p[k] = s[1]
              /\ GlobRest(Drop(p, ClassEnd(p)), Tail(s))
    ELSE s # <<>> /\ s[1] = p[1] /\ GlobRest(Tail(p), Tail(s))

\* a leading "**/" matches nothing or any leading directories
GlobMatch(p, s) ==
    IF p = <<"*", "*">> THEN TRUE
    ELSE IF IsPrefix(<<"*", "*", "/">>, p)
         THEN \/ GlobRest(Drop(p, 3), s)
              \/ \E i \in 1..Len(s) : s[i] = "/" /\ GlobRest(Drop(p, 3), Drop(s, i))
    ELSE GlobRest(p, s)

\* GitignoreBuilder::add_line, step by step on the rule being built: a leading
\* "!" makes it a whitelist rule
ParseNegation(g) ==
    IF IsPrefix(<<"!">>, g.line) THEN [g EXCEPT !.is_whitelist = TRUE, !.line = Tail(g.line)]
    ELSE g

\* a leading "/" anchors the rule at the root
ParseAnchor(g) ==
    IF IsPrefix(<<"/">>, g.line) THEN [g EXCEPT !.is_absolute = TRUE, !.line = Tail(g.line)]
    ELSE g

\* a trailing "/" restricts the rule to directories
ParseOnlyDir(g) ==
    IF g.line # <<>> /\ g.line[Len(g.line)] = "/"
    THEN [g EXCEPT !.is_only_dir = TRUE, !.line = SubSeq(g.line, 1, Len(g.line) - 1)]
    ELSE g

\* a rule without a separator matches at any depth: it gets a "**/" prefix
ParseAnyDepth(g) ==
    IF /\ ~g.is_absolute
       /\ ~HasChar(g.line, "/")
       /\ g.line # <<"*", "*">>
       /\ ~IsPrefix(<<"*", "*", "/">>, g.line)
    THEN [g EXCEPT !.line = <<"*", "*", "/">> \o g.line]
    ELSE g

\* a rule ending in "/**" matches what is inside the directory, not the directory
ParseSuffix(g) ==
    IF IsSuffix(<<"/", "*", "*">>, g.line) THEN [g EXCEPT !.line = g.line \o <<"/", "*">>]
    ELSE g

\* the glob is compiled
ParseCompile(g) ==
    IF GlobValid(g.line)
    THEN [tag |-> "glob", actual |-> g.line, is_whitelist |-> g.is_whitelist,
          is_only_dir |-> g.is_only_dir, original |-> g.original]
    ELSE [tag |-> "error", actual |-> g.line, is_whitelist |-> g.is_whitelist,
          is_only_dir |-> g.is_only_dir, original |-> g.original]

NewGlob(line) ==
    [line |-> line, original |-> line, is_whitelist |-> FALSE, is_absolute |-> FALSE,
     is_only_dir |-> FALSE]

SkippedLine(line) ==
    [tag |-> "skip", actual |-> <<>>, is_whitelist |-> FALSE, is_only_dir |-> FALSE,
     original |-> line]

\* GitignoreBuilder::add_line: "skip" for a comment or a blank line, "error" for
\* a glob that does not compile, otherwise "glob" with the compiled rule
ParseLine(raw) ==
    IF IsPrefix(<<"#">>, raw) \/ TrimEnd(raw) = <<>> THEN SkippedLine(raw)
    ELSE ParseCompile(ParseSuffix(ParseAnyDepth(ParseOnlyDir(ParseAnchor(ParseNegation(
             NewGlob(TrimEnd(raw))))))))

\* Gitignore::strip: drop a leading "./", then the matcher's root and the
\* separator after it (a bare file name is left alone)
GitignoreStrip(rootDisp, pathDisp) ==
    LET p1 == IF IsPrefix(<<".", "/">>, pathDisp) THEN Drop(pathDisp, 2) ELSE pathDisp
        isFileName == p1 # <<>> /\ ~HasChar(p1, "/")
        p2 == IF rootDisp # <<".">> /\ ~isFileName /\ IsPrefix(rootDisp, p1)
              THEN Drop(p1, Len(rootDisp))
              ELSE p1
    IN  IF p2 # p1 /\ IsPrefix(<<"/">>, p2) THEN Tail(p2) ELSE p2

\* a matcher in which the first rule that matches decides
RECURSIVE MatchedStrippedFirstWins(_, _, _)
MatchedStrippedFirstWins(globs, cand, isDir) ==
    IF globs = <<>> THEN "none"
    ELSE LET g == globs[1]
         IN  IF GlobMatch(g.actual, cand) /\ (~g.is_only_dir \/ isDir)
             THEN IF g.is_whitelist THEN "whitelist" ELSE "ignore"
             ELSE MatchedStrippedFirstWins(Tail(globs), cand, isDir)

\* Gitignore::matched: the last rule that matches decides; a directory-only
\* rule is passed over for a non-directory.  "ignore", "whitelist" or "none".
RECURSIVE MatchedStripped(_, _, _)
MatchedStripped(globs, cand, isDir) ==
    IF globs = <<>> THEN "none"
    ELSE LET g == globs[Len(globs)]
         IN  IF GlobMatch(g.actual, cand) /\ (~g.is_only_dir \/ isDir)
             THEN IF g.is_whitelist THEN "whitelist" ELSE "ignore"
             ELSE MatchedStripped(SubSeq(globs, 1, Len(globs) - 1), cand, isDir)

\* ------------------------------------------------------------------------
\* The file system
\* ------------------------------------------------------------------------

d_r == AbsPath(<<n_r>>)
d_foo == AbsPath(<<n_r, n_foo>>)
d_build == AbsPath(<<n_r, n_build>>)
d_sub == AbsPath(<<n_r, n_build, n_sub>>)
d_git == AbsPath(<<n_r, n_git>>)
d_empty == AbsPath(<<n_r, n_empty>>)
d_nff == AbsPath(<<n_r, n_nff>>)
d_missing == AbsPath(<<n_missing>>)

f_a == AbsPath(<<n_r, n_a>>)
f_keep == AbsPath(<<n_r, n_foo, n_keep>>)
f_b == AbsPath(<<n_r, n_foo, n_b>>)
f_d == AbsPath(<<n_r, n_build, n_sub, n_d>>)
f_cfg == AbsPath(<<n_r, n_git, n_cfg>>)
f_ignore == AbsPath(<<n_r, n_ignore>>)
f_temp == AbsPath(<<n_r, n_temp>>)
f_n == AbsPath(<<n_r, n_nff, n_n>>)
f_out == AbsPath(<<n_r, n_empty, n_out>>)

\* the directories; they never change
Dirs == {d_r, d_foo, d_build, d_sub, d_git, d_empty, d_nff}

\* the regular files that are always there, other than a.txt, with their content
FixedFiles ==
    [p \in {f_keep, f_b, f_d, f_cfg} |->
        IF p = f_keep THEN <<"k">>
        ELSE IF p = f_b THEN <<>>
        ELSE IF p = f_d THEN <<"d", "\n">>
        ELSE <<"c">>]

\* every name of the file system, in directory-enumeration order
NameOrder ==
    <<n_a, n_foo, n_keep, n_b, n_build, n_sub, n_d, n_git, n_cfg, n_empty, n_nff, n_n, n_out,
      n_ignore, n_temp>>

Reverse(s) == [i \in 1..Len(s) |-> s[Len(s) + 1 - i]]

RECURSIVE SelectNames(_, _, _)
SelectNames(order, dir, fs) ==
    IF order = <<>> THEN <<>>
    ELSE LET child == PathJoin(dir, order[1])
             rest == SelectNames(Tail(order), dir, fs)
         IN  IF child \in Dirs \/ child \in DOMAIN fs THEN <<order[1]>> \o rest ELSE rest

\* fs::read_dir: the names in a directory, in the file system's order
ReadDir(dir, fs, order) ==
    SelectNames(IF order = "fwd" THEN NameOrder ELSE Reverse(NameOrder), Canonical(dir), fs)

PathExists(p, fs) == Canonical(p) \in Dirs \/ Canonical(p) \in DOMAIN fs

IsDir(p) == Canonical(p) \in Dirs

IsFile(p, fs) == Canonical(p) \in DOMAIN fs

WriteFile(fs, p, content) ==
    [q \in DOMAIN fs \cup {Canonical(p)} |-> IF q = Canonical(p) THEN content ELSE fs[q]]

\* ------------------------------------------------------------------------
\* Errors: an anyhow error is its chain of messages, outermost context first
\* ------------------------------------------------------------------------

NoPath == RelPath(<<>>)

Msg(kind, path) == [kind |-> kind, path |-> path, pattern |-> <<>>, index |-> 0]

PatternMsg(kind, pattern, index) ==
    [kind |-> kind, path |-> NoPath, pattern |-> pattern, index |-> index]

\* the text "No files found"
NoFilesFoundText == n_nff

\* whether the text of one message contains "No files found": the message of
\* TraversalError::NoFilesFound does, and any message does through the path or
\* pattern it displays
MsgContains(m) ==
    \/ m.kind = "NoFilesFound"
    \/ ContainsSub(Display(m.path), NoFilesFoundText)
    \/ ContainsSub(m.pattern, NoFilesFoundText)

\* anyhow::Error::to_string: the outermost message only
ErrToString(err) == err[1]

\* ------------------------------------------------------------------------
\* ExcludeMatcher
\* ------------------------------------------------------------------------

RECURSIVE GlobsOfLines(_)
GlobsOfLines(lines) ==
    IF lines = <<>> THEN <<>>
    ELSE LET g == ParseLine(lines[1])
         IN  IF g.tag = "glob" THEN <<g>> \o GlobsOfLines(Tail(lines))
             ELSE GlobsOfLines(Tail(lines))

\* add_ignore_file: the rules of <root>/.treeclipignore when it exists; the
\* result of builder.add is dropped, so a line that does not compile is left out
add_ignore_file(root, fs) ==
    LET ignore_file == PathJoin(root, n_ignore)
    IN  IF PathExists(ignore_file, fs)
        THEN GlobsOfLines(SplitLines(fs[Canonical(ignore_file)]))
        ELSE <<>>

\* add_cli_patterns: 0 when every pattern compiles, else the 1-based index of
\* the first one that does not
FirstInvalidCli(cli_patterns) ==
    IF \A i \in 1..Len(cli_patterns) : ParseLine(cli_patterns[i]).tag # "error" THEN 0
    ELSE CHOOSE i \in 1..Len(cli_patterns) :
            /\ ParseLine(cli_patterns[i]).tag = "error"
            /\ \A j \in 1..(i - 1) : ParseLine(cli_patterns[j]).tag # "error"

\* the error of add_cli_patterns with the context added by ExcludeMatcher::new
add_cli_patterns_error(cli_patterns) ==
    LET i == FirstInvalidCli(cli_patterns)
    IN  << Msg("CliPatternsFailed", NoPath),
           PatternMsg("InvalidPatternContext", cli_patterns[i], i),
           PatternMsg("InvalidPattern", cli_patterns[i], 0) >>

\* a builder that is given the CLI rules before the ignore-file rules
CombinedGlobsCliFirst(root, cli_patterns, fs) ==
    GlobsOfLines(cli_patterns) \o add_ignore_file(root, fs)

\* the rule list of the builder: ignore-file rules, then CLI rules
CombinedGlobs(root, cli_patterns, fs) ==
    add_ignore_file(root, fs) \o GlobsOfLines(cli_patterns)

\* ExcludeMatcher::new
ExcludeMatcherNew(root, cli_patterns, fs) ==
    IF FirstInvalidCli(cli_patterns) # 0
    THEN [ok |-> FALSE, root |-> root, globs |-> <<>>, err |-> add_cli_patterns_error(cli_patterns)]
    ELSE [ok |-> TRUE, root |-> root, globs |-> CombinedGlobs(root, cli_patterns, fs), err |-> <<>>]

\* the root the builder keeps: a leading "./" is dropped
BuilderRoot(root) ==
    IF IsPrefix(<<".", "/">>, Display(root)) THEN Drop(Display(root), 2) ELSE Display(root)

\* ExcludeMatcher::is_excluded
is_excluded(m, path) ==
    MatchedStripped(m.globs, GitignoreStrip(BuilderRoot(m.root), Display(path)), IsDir(path)) = "ignore"

\* ------------------------------------------------------------------------
\* Entry filter
\* ------------------------------------------------------------------------

\* filter::is_hidden: the entry's file name starts with "."
is_hidden(entry) ==
    entry.names # <<>> /\ IsPrefix(<<".">>, entry.names[Len(entry.names)])

\* a filter that admits what is not excluded or not hidden
AdmitEither(m, skip_hidden, entry) ==
    ~is_excluded(m, entry) \/ (~skip_hidden \/ ~is_hidden(entry))

\* the filter_entry predicate of Walker::traverse
Admit(m, skip_hidden, entry) ==
    LET excluded == is_excluded(m, entry)
        non_hidden_path == ~skip_hidden \/ ~is_hidden(entry)
    IN  ~excluded /\ non_hidden_path

\* ------------------------------------------------------------------------
\* Output writer
\* ------------------------------------------------------------------------

\* a header path that is the entry path as walked, never made relative
relative_pathUnstripped(root, entry_path) == entry_path

\* the path shown in a header: relative to the exclusion root when the entry
\* lies under it, else the entry path as it is
relative_path(root, entry_path) ==
    IF PathStartsWith(entry_path, root) THEN StripPrefix(entry_path, root) ELSE entry_path

\* the header text "==> <relative-path>", without its newline
HeaderLine(root, entry_path) ==
    <<"=", "=", ">", " ">> \o Display(relative_path(root, entry_path))

\* a writer that puts the separator before every record, the first included
HeaderPartAlwaysSeparated(root, entry_path, first) ==
    <<"\n">> \o HeaderLine(root, entry_path) \o <<"\n">>

\* what write_file_content writes before it reads the file: the separator
\* unless this is the first record, then the header line
HeaderPart(root, entry_path, first) ==
    (IF first THEN <<>> ELSE <<"\n">>) \o HeaderLine(root, entry_path) \o <<"\n">>

\* what write_file_content writes after it has read the file
ContentPart(content) == TrimEnd(content) \o <<"\n">>

\* ------------------------------------------------------------------------
\* State
\* ------------------------------------------------------------------------

VARIABLES
    args,           \* RunArgs
    files,          \* the regular files: canonical path -> content
    files0,         \* the regular files when the run started
    dirOrder,       \* the file system's enumeration order, "fwd" or "rev"
    unreadable,     \* canonical paths of the files whose content, and of the
                    \* directories whose entries, cannot be read
    env,            \* clipboard availability and the exit of the editor commands
    pc,             \* position in execute
    idx,            \* index of the input root of the current loop iteration
    any_success,    \* execute's any_success
    matcher,        \* the ExcludeMatcher of the current traversal
    stack,          \* the walk: one sequence of pending entries per open directory
    file_count,     \* traverse's file_count
    first,          \* traverse's first
    res,            \* result of process_dir for the current root
    result,         \* result of execute: running, ok, or err with its error chain
    warnings,       \* input roots reported by the "No files found" warning
    written,        \* entries whose record the current traversal has written
    log,            \* per finished root: input, ok, written, artifact
    clipboard,      \* text in the system clipboard
    launched,       \* editor commands launched, in order
    runs,           \* the number of this run of execute, from 1
    call,           \* a library function called on its own, with its inputs
    ret             \* what that call returned

vars == <<args, files, files0, dirOrder, unreadable, env, pc, idx, any_success, matcher,
          stack, file_count, first, res, result, warnings, written, log, clipboard, launched,
          runs, call, ret>>

Some(v) == [some |-> TRUE, v |-> v]

None == [some |-> FALSE, v |-> NoPath]

Ok == [ok |-> TRUE, err |-> <<>>]

Err(chain) == [ok |-> FALSE, err |-> chain]

Running == [status |-> "running", err |-> <<>>]

Succeeded == [status |-> "ok", err |-> <<>>]

Failed(chain) == [status |-> "err", err |-> chain]

NoMatcher == [ok |-> FALSE, root |-> NoPath, globs |-> <<>>, err |-> <<>>]

\* the spelling "."
DotPath == RelPath(<<n_dot>>)

\* the default output spelling "./treeclip_temp.txt"
DefaultOutput == RelPath(<<n_dot, n_temp>>)

\* the input root, exclusion root and output of the current Walker
CurInput == args.input_paths[idx]

CurRoot == args.root.v

CurOutput == args.output_path.v

\* ------------------------------------------------------------------------
\* Initial states
\* ------------------------------------------------------------------------

p_build == <<"b", "u", "i", "l", "d">>
p_not_build == <<"!", "b", "u", "i", "l", "d">>
p_foo_star == <<"f", "o", "o", "/", "*">>
p_not_keep == <<"!", "f", "o", "o", "/", "k", "e", "e", "p", ".", "t", "x", "t">>
p_bad == <<"[", "b", "a", "d">>

\* the exclusion patterns tried, on the command line and in the ignore file
PatternPool == {p_build, p_not_build, p_foo_star, p_not_keep, p_bad}

\* the input roots tried
RootPool == {DotPath, d_foo, d_sub, d_empty, d_nff, d_missing}

\* the characters of a varied file content
ContentChars == {"x", " ", "\n"}

\* the output spellings tried: the default "." and an absolute path to the same file
OutputPool == {Some(DotPath), Some(f_temp)}

DefaultContent == <<"x", "\n">>

OldArtifact == <<"o", "l", "d", "\n">>

DefaultEnv == [clip_available |-> TRUE, platform |-> "ok", cli |-> "ok"]

NoIgnoreFile == [present |-> FALSE, lines |-> <<>>]

\* the ignore files tried: none, or one with up to MaxIgnoreLines lines
IgnorePool ==
    {NoIgnoreFile} \cup {[present |-> TRUE, lines |-> l] : l \in SeqsUpTo(PatternPool, MaxIgnoreLines)}

\* the files at the start: a.txt with the given content, the ignore file when
\* there is one, and the artifact of an earlier run when prior is set
InitialFiles(aContent, ignore, prior) ==
    LET f1 == WriteFile(FixedFiles, f_a, aContent)
        f2 == IF ignore.present THEN WriteFile(f1, f_ignore, JoinWith(ignore.lines, <<"\n">>))
              ELSE f1
    IN  IF prior THEN WriteFile(f2, f_temp, OldArtifact) ELSE f2

RunArgs(inputs, output, exclude, skip_hidden, clip, stats, editor, delete) ==
    [input_paths |-> inputs, output_path |-> output, root |-> Some(DotPath),
     exclude |-> exclude, skip_hidden |-> skip_hidden, clipboard |-> clip,
     stats |-> stats, editor |-> editor, delete |-> delete]

InitRest ==
    /\ files0 = files
    /\ pc = "start"
    /\ idx = 1
    /\ any_success = FALSE
    /\ matcher = NoMatcher
    /\ stack = <<>>
    /\ file_count = 0
    /\ first = TRUE
    /\ res = Ok
    /\ result = Running
    /\ warnings = <<>>
    /\ written = <<>>
    /\ log = <<>>
    /\ clipboard = <<>>
    /\ launched = <<>>
    /\ runs = 1

\* one input root "."; every ignore file and every list of CLI patterns
InitPatterns ==
    /\ \E cli \in SeqsUpTo(PatternPool, MaxCli), skip \in BOOLEAN :
          args = RunArgs(<<DotPath>>, Some(f_temp), cli, skip, FALSE, FALSE, FALSE, FALSE)
    /\ \E ignore \in IgnorePool, prior \in BOOLEAN :
          files = InitialFiles(DefaultContent, ignore, prior)
    /\ dirOrder = "fwd"
    /\ unreadable = {}
    /\ env = DefaultEnv
    /\ InitRest

\* every list of input roots, without a CLI pattern and with one
InitRoots ==
    /\ \E inputs \in SeqsUpTo(RootPool, MaxRoots) \ {<<>>}, out \in OutputPool,
          cli \in {<<>>, <<p_build>>, <<p_foo_star>>}, skip \in BOOLEAN :
          args = RunArgs(inputs, out, cli, skip, FALSE, FALSE, FALSE, FALSE)
    /\ \E prior \in BOOLEAN : files = InitialFiles(DefaultContent, NoIgnoreFile, prior)
    /\ dirOrder = "fwd"
    /\ unreadable = {}
    /\ env = DefaultEnv
    /\ InitRest

\* one input root "."; every content of a.txt, both enumeration orders
InitContent ==
    /\ \E out \in OutputPool, skip \in BOOLEAN :
          args = RunArgs(<<DotPath>>, out, <<>>, skip, FALSE, FALSE, FALSE, FALSE)
    /\ \E content \in SeqsUpTo(ContentChars, MaxContentLen), prior \in BOOLEAN :
          files = InitialFiles(content, NoIgnoreFile, prior)
    /\ dirOrder \in {"fwd", "rev"}
    /\ unreadable \in {{}, {f_a}}
    /\ env = DefaultEnv
    /\ InitRest

\* the input lists tried with an exclusion root that is not the current directory
ElsewhereInputs == {<<d_foo>>, <<d_sub>>, <<DotPath>>, <<d_foo, d_sub>>, <<d_sub, d_foo>>}

\* the exclusion root is /r/foo: input roots under it, beside it and above it
InitRootElsewhere ==
    /\ \E inputs \in ElsewhereInputs, skip \in BOOLEAN, out \in OutputPool :
          args = [RunArgs(inputs, out, <<>>, skip, FALSE, FALSE, FALSE, FALSE)
                      EXCEPT !.root = Some(d_foo)]
    /\ files = InitialFiles(DefaultContent, NoIgnoreFile, FALSE)
    /\ dirOrder = "fwd"
    /\ unreadable = {}
    /\ env = DefaultEnv
    /\ InitRest

\* an output file inside a directory that holds no other file, spelled
\* relative to the current directory and absolute
InsideOutputs == {Some(RelPath(<<n_empty, n_out>>)), Some(f_out)}

\* the input lists tried with the output inside the otherwise empty directory
InsideInputs == {<<d_empty>>, <<d_empty, d_foo>>, <<d_foo, d_empty>>}

\* the output file lies inside an input root that holds no other file
InitOutputInside ==
    /\ \E inputs \in InsideInputs, out \in InsideOutputs, skip \in BOOLEAN :
          args = RunArgs(inputs, out, <<>>, skip, FALSE, FALSE, FALSE, FALSE)
    /\ \E prior \in BOOLEAN :
          files = IF prior
                  THEN WriteFile(InitialFiles(DefaultContent, NoIgnoreFile, FALSE), f_out, OldArtifact)
                  ELSE InitialFiles(DefaultContent, NoIgnoreFile, FALSE)
    /\ dirOrder = "fwd"
    /\ unreadable = {}
    /\ env = DefaultEnv
    /\ InitRest

\* the input lists tried with entries that cannot be read
ErrorInputs == {<<DotPath>>, <<d_nff>>, <<d_nff, d_foo>>, <<DotPath, d_nff>>, <<d_foo, DotPath>>}

\* the files and directories that may be unreadable
UnreadablePool == {f_a, f_n, f_keep, d_foo}

\* a file in the directory named "No files found"; files and directories
\* that cannot be read
InitErrors ==
    /\ \E inputs \in ErrorInputs, skip \in BOOLEAN :
          args = RunArgs(inputs, Some(f_temp), <<>>, skip, FALSE, FALSE, FALSE, FALSE)
    /\ \E withN \in BOOLEAN :
          files = IF withN THEN WriteFile(InitialFiles(DefaultContent, NoIgnoreFile, FALSE), f_n, <<"n">>)
                  ELSE InitialFiles(DefaultContent, NoIgnoreFile, FALSE)
    /\ dirOrder \in {"fwd", "rev"}
    /\ unreadable \in SUBSET UnreadablePool
    /\ env = DefaultEnv
    /\ InitRest

\* an input root that is hidden (/r/.git) or named by a rule (/r/build), alone
\* and before another root
InitRootFiltered ==
    /\ \E inputs \in {<<d_git>>, <<d_build>>, <<d_git, d_foo>>, <<d_build, d_foo>>},
          cli \in {<<>>, <<p_build>>}, skip \in BOOLEAN :
          args = RunArgs(inputs, Some(f_temp), cli, skip, FALSE, FALSE, FALSE, FALSE)
    /\ \E prior \in BOOLEAN : files = InitialFiles(DefaultContent, NoIgnoreFile, prior)
    /\ dirOrder = "fwd"
    /\ unreadable = {}
    /\ env = DefaultEnv
    /\ InitRest

\* every way of giving or leaving out the output and the exclusion root, with
\* "." among the input roots
InitSpellings ==
    /\ \E inputs \in {<<DotPath>>, <<d_foo, DotPath>>, <<DotPath, DotPath>>},
          out \in {None, Some(DotPath), Some(DefaultOutput), Some(f_temp)},
          root \in {None, Some(DotPath), Some(CurrentDir), Some(d_foo)} :
          args = [RunArgs(inputs, out, <<>>, TRUE, FALSE, FALSE, FALSE, FALSE)
                      EXCEPT !.root = root]
    /\ files = InitialFiles(DefaultContent, NoIgnoreFile, FALSE)
    /\ dirOrder = "fwd"
    /\ unreadable = {}
    /\ env = DefaultEnv
    /\ InitRest

\* one input root "."; every setting of the steps after the traversal
InitTail ==
    /\ \E clip \in BOOLEAN, stats \in BOOLEAN, editor \in BOOLEAN, delete \in BOOLEAN :
          /\ delete => editor
          /\ args = RunArgs(<<DotPath>>, Some(f_temp), <<>>, TRUE, clip, stats, editor, delete)
    /\ files = InitialFiles(DefaultContent, NoIgnoreFile, FALSE)
    /\ dirOrder = "fwd"
    /\ unreadable = {}
    /\ env \in [clip_available : BOOLEAN, platform : {"ok", "fail", "nospawn"},
                cli : {"ok", "fail", "nospawn"}]
    /\ InitRest

\* no library function has been called on its own
NoCall == [fn |-> "none"]

Init ==
    /\ \/ InitPatterns
       \/ InitRoots
       \/ InitContent
       \/ InitErrors
       \/ InitRootElsewhere
       \/ InitOutputInside
       \/ InitSpellings
       \/ InitRootFiltered
       \/ InitTail
    /\ call = NoCall
    /\ ret = NoCall

\* ------------------------------------------------------------------------
\* execute: normalisation and the loop over the input roots
\* ------------------------------------------------------------------------

\* normalize_paths keeps every input path as given
NormalizeInputKept(input_path) == input_path

\* normalize_paths on one input path
NormalizeInput(input_path) == IF input_path = DotPath THEN CurrentDir ELSE input_path

\* normalize_paths
normalize_paths(a) ==
    [a EXCEPT
        !.input_paths = [i \in 1..Len(a.input_paths) |-> NormalizeInput(a.input_paths[i])],
        !.output_path = IF a.output_path.some /\ a.output_path.v # DotPath
                        THEN a.output_path
                        ELSE Some(DefaultOutput),
        !.root = IF a.root.some /\ a.root.v # DotPath THEN a.root ELSE Some(CurrentDir)]

Normalize ==
    /\ pc = "start"
    /\ args' = normalize_paths(args)
    /\ pc' = "loop"
    /\ UNCHANGED <<files, files0, dirOrder, unreadable, env, idx, any_success, matcher, stack,
                   file_count, first, res, result, warnings, written, log, clipboard, launched,
                   runs, call, ret>>

\* the for loop takes the next input root and builds its Walker
LoopBody ==
    /\ pc = "loop"
    /\ idx <= Len(args.input_paths)
    /\ pc' = "validate"
    /\ UNCHANGED <<args, files, files0, dirOrder, unreadable, env, idx, any_success, matcher,
                   stack, file_count, first, res, result, warnings, written, log, clipboard,
                   launched, runs, call, ret>>

\* after the loop: no root succeeded
LoopEndNoSuccess ==
    /\ pc = "loop"
    /\ idx > Len(args.input_paths)
    /\ ~any_success
    /\ result' = Failed(<<Msg("NoFilesInAnyDirectory", NoPath)>>)
    /\ pc' = "failed"
    /\ UNCHANGED <<args, files, files0, dirOrder, unreadable, env, idx, any_success, matcher,
                   stack, file_count, first, res, warnings, written, log, clipboard, launched,
                   runs, call, ret>>

\* after the loop, whether a root succeeded or not
LoopEndAnyway ==
    /\ pc = "loop"
    /\ idx > Len(args.input_paths)
    /\ pc' = "clipboard"
    /\ UNCHANGED <<args, files, files0, dirOrder, unreadable, env, idx, any_success, matcher,
                   stack, file_count, first, res, result, warnings, written, log, clipboard,
                   launched, runs, call, ret>>

\* after the loop: some root succeeded
LoopEndSuccess ==
    /\ pc = "loop"
    /\ idx > Len(args.input_paths)
    /\ any_success
    /\ pc' = "clipboard"
    /\ UNCHANGED <<args, files, files0, dirOrder, unreadable, env, idx, any_success, matcher,
                   stack, file_count, first, res, result, warnings, written, log, clipboard,
                   launched, runs, call, ret>>

LogEntry(ok) ==
    [input |-> CurInput, ok |-> ok, err |-> res.err, written |-> written,
     artifact |-> IF IsFile(CurOutput, files) THEN files[Canonical(CurOutput)] ELSE <<>>]

\* match arm Ok(())
TraversalOk ==
    /\ pc = "match"
    /\ res.ok
    /\ any_success' = TRUE
    /\ log' = Append(log, LogEntry(TRUE))
    /\ idx' = idx + 1
    /\ pc' = "loop"
    /\ UNCHANGED <<args, files, files0, dirOrder, unreadable, env, matcher, stack, file_count,
                   first, res, result, warnings, written, clipboard, launched, runs, call, ret>>

\* match arm Err(e) where e.to_string() contains "No files found": warn and go on
TraversalWarn ==
    /\ pc = "match"
    /\ ~res.ok
    /\ MsgContains(ErrToString(res.err))
    /\ warnings' = Append(warnings, CurInput)
    /\ log' = Append(log, LogEntry(FALSE))
    /\ idx' = idx + 1
    /\ pc' = "loop"
    /\ UNCHANGED <<args, files, files0, dirOrder, unreadable, env, any_success, matcher, stack,
                   file_count, first, res, result, written, clipboard, launched, runs, call, ret>>

\* match arm Err(e) otherwise: return Err(e)
TraversalAbort ==
    /\ pc = "match"
    /\ ~res.ok
    /\ ~MsgContains(ErrToString(res.err))
    /\ result' = Failed(res.err)
    /\ log' = Append(log, LogEntry(FALSE))
    /\ pc' = "failed"
    /\ UNCHANGED <<args, files, files0, dirOrder, unreadable, env, idx, any_success, matcher,
                   stack, file_count, first, res, warnings, written, clipboard, launched, runs,
                   call, ret>>

\* ------------------------------------------------------------------------
\* Walker::process_dir and Walker::traverse
\* ------------------------------------------------------------------------

\* the context process_dir puts around an error of traverse
TraversalFailed(chain) == <<Msg("DirectoryTraversalFailed", CurInput)>> \o chain

\* process_dir: validate_path_exists on the input root
ValidateOk ==
    /\ pc = "validate"
    /\ PathExists(CurInput, files)
    /\ pc' = "matcher"
    /\ UNCHANGED <<args, files, files0, dirOrder, unreadable, env, idx, any_success, matcher,
                   stack, file_count, first, res, result, warnings, written, log, clipboard,
                   launched, runs, call, ret>>

ValidateFail ==
    /\ pc = "validate"
    /\ ~PathExists(CurInput, files)
    /\ res' = Err(<<Msg("InputValidationFailed", CurInput), Msg("PathNotFound", CurInput)>>)
    /\ written' = <<>>
    /\ pc' = "match"
    /\ UNCHANGED <<args, files, files0, dirOrder, unreadable, env, idx, any_success, matcher,
                   stack, file_count, first, result, warnings, log, clipboard, launched, runs,
                   call, ret>>

\* traverse: ExcludeMatcher::new
\* a matcher built on the input root of the traversal
MatcherRootIsInput == CurInput

\* the root the matcher is built on: the Walker's exclusion root
MatcherRoot == CurRoot

BuildMatcherOk ==
    /\ pc = "matcher"
    /\ LET m == ExcludeMatcherNew(MatcherRoot, args.exclude, files)
       IN  m.ok /\ matcher' = m
    /\ pc' = "open"
    /\ UNCHANGED <<args, files, files0, dirOrder, unreadable, env, idx, any_success, stack,
                   file_count, first, res, result, warnings, written, log, clipboard, launched,
                   runs, call, ret>>

BuildMatcherFail ==
    /\ pc = "matcher"
    /\ LET m == ExcludeMatcherNew(MatcherRoot, args.exclude, files)
       IN  /\ ~m.ok
           /\ res' = Err(TraversalFailed(<<Msg("MatcherCreationFailed", CurRoot)>> \o m.err))
    /\ written' = <<>>
    /\ pc' = "match"
    /\ UNCHANGED <<args, files, files0, dirOrder, unreadable, env, idx, any_success, matcher,
                   stack, file_count, first, result, warnings, log, clipboard, launched, runs,
                   call, ret>>

\* traverse opens the output with write and create, without truncate
OpenOutputNoTruncate ==
    /\ pc = "open"
    /\ files' = IF IsFile(CurOutput, files) THEN files ELSE WriteFile(files, CurOutput, <<>>)
    /\ file_count' = 0
    /\ first' = TRUE
    /\ written' = <<>>
    /\ stack' = << <<CurInput>> >>
    /\ pc' = "walk"
    /\ UNCHANGED <<args, files0, dirOrder, unreadable, env, idx, any_success, matcher, res,
                   result, warnings, log, clipboard, launched, runs, call, ret>>

\* traverse: open the output with write, truncate and create; the walk starts
\* at the input root
OpenOutput ==
    /\ pc = "open"
    /\ files' = WriteFile(files, CurOutput, <<>>)
    /\ file_count' = 0
    /\ first' = TRUE
    /\ written' = <<>>
    /\ stack' = << <<CurInput>> >>
    /\ pc' = "walk"
    /\ UNCHANGED <<args, files0, dirOrder, unreadable, env, idx, any_success, matcher, res,
                   result, warnings, log, clipboard, launched, runs, call, ret>>

\* the entry the walk yields next: the first pending entry of the innermost
\* open directory
NextEntry == stack[Len(stack)][1]

RECURSIVE DropEmptyFrames(_)
DropEmptyFrames(st) ==
    IF st = <<>> THEN <<>>
    ELSE IF st[Len(st)] = <<>> THEN DropEmptyFrames(SubSeq(st, 1, Len(st) - 1))
    ELSE st

\* a walk that opens its root directory although the filter rejected it
StackSkipOpensRoot ==
    IF Len(stack) = 1 /\ NextEntry = CurInput /\ IsDir(NextEntry)
    THEN DropEmptyFrames(<<[i \in 1..Len(ReadDir(CurInput, files, dirOrder)) |->
                               PathJoin(CurInput, ReadDir(CurInput, files, dirOrder)[i])]>>)
    ELSE DropEmptyFrames(SubSeq(stack, 1, Len(stack) - 1) \o <<Tail(stack[Len(stack)])>>)

\* the walk after NextEntry was taken and not descended into
StackSkip ==
    DropEmptyFrames(SubSeq(stack, 1, Len(stack) - 1) \o <<Tail(stack[Len(stack)])>>)

\* the entries of a directory, spelled as WalkDir spells them: the directory's
\* path joined with each name
ChildEntries(dir) ==
    LET names == ReadDir(dir, files, dirOrder)
    IN  [i \in 1..Len(names) |-> PathJoin(dir, names[i])]

\* a walk that opens the input root only and no directory below it
StackDescendRootOnly ==
    IF IsDir(NextEntry) /\ NextEntry = CurInput
    THEN DropEmptyFrames(SubSeq(stack, 1, Len(stack) - 1) \o <<Tail(stack[Len(stack)])>>
                         \o <<ChildEntries(NextEntry)>>)
    ELSE StackSkip

\* the walk after NextEntry was taken and, when it is a directory, opened
StackDescend ==
    IF IsDir(NextEntry)
    THEN DropEmptyFrames(SubSeq(stack, 1, Len(stack) - 1) \o <<Tail(stack[Len(stack)])>>
                         \o <<ChildEntries(NextEntry)>>)
    ELSE StackSkip

\* filter_entry rejects the entry: it is not yielded and, when a directory, not
\* descended into
WalkFiltered ==
    /\ pc = "walk"
    /\ stack # <<>>
    /\ ~Admit(matcher, args.skip_hidden, NextEntry)
    /\ stack' = StackSkip
    /\ UNCHANGED <<args, files, files0, dirOrder, unreadable, env, pc, idx, any_success, matcher,
                   file_count, first, res, result, warnings, written, log, clipboard, launched,
                   runs, call, ret>>

\* the loop body on an entry equal to the output path: continue
WalkSkipOutput ==
    /\ pc = "walk"
    /\ stack # <<>>
    /\ Admit(matcher, args.skip_hidden, NextEntry)
    /\ NextEntry = CurOutput
    /\ stack' = StackDescend
    /\ UNCHANGED <<args, files, files0, dirOrder, unreadable, env, pc, idx, any_success, matcher,
                   file_count, first, res, result, warnings, written, log, clipboard, launched,
                   runs, call, ret>>

\* the loop body on an entry that is not a file: nothing is written
WalkDirectory ==
    /\ pc = "walk"
    /\ stack # <<>>
    /\ Admit(matcher, args.skip_hidden, NextEntry)
    /\ NextEntry # CurOutput
    /\ ~IsFile(NextEntry, files)
    /\ Canonical(NextEntry) \notin unreadable
    /\ stack' = StackDescend
    /\ UNCHANGED <<args, files, files0, dirOrder, unreadable, env, pc, idx, any_success, matcher,
                   file_count, first, res, result, warnings, written, log, clipboard, launched,
                   runs, call, ret>>

\* the loop on a directory whose entries cannot be read: the directory itself
\* is yielded and passed, then the iterator yields the error and "?" ends the
\* traversal
WalkEntryError ==
    /\ pc = "walk"
    /\ stack # <<>>
    /\ Admit(matcher, args.skip_hidden, NextEntry)
    /\ NextEntry # CurOutput
    /\ ~IsFile(NextEntry, files)
    /\ Canonical(NextEntry) \in unreadable
    /\ res' = Err(TraversalFailed(<<Msg("EntryAccessFailed", CurInput),
                                    Msg("WalkFailed", CurInput)>>))
    /\ pc' = "match"
    /\ UNCHANGED <<args, files, files0, dirOrder, unreadable, env, idx, any_success, matcher,
                   stack, file_count, first, result, warnings, written, log, clipboard, launched,
                   runs, call, ret>>

\* the output after write_file_content wrote the separator and the header
AfterHeader(fs, entry_path) ==
    WriteFile(fs, CurOutput,
              fs[Canonical(CurOutput)] \o HeaderPart(CurRoot, entry_path, first))

\* write_file_content: separator and header, then the file is read (after the
\* header reached the output), then its trimmed content and a newline
write_file_content(fs, entry_path) ==
    LET fs1 == AfterHeader(fs, entry_path)
        content == fs1[Canonical(entry_path)]
    IN  WriteFile(fs1, CurOutput, fs1[Canonical(CurOutput)] \o ContentPart(content))

\* the loop body on a file: count it and write its record
WalkFile ==
    /\ pc = "walk"
    /\ stack # <<>>
    /\ Admit(matcher, args.skip_hidden, NextEntry)
    /\ NextEntry # CurOutput
    /\ IsFile(NextEntry, files)
    /\ Canonical(NextEntry) \notin unreadable
    /\ file_count' = file_count + 1
    /\ files' = write_file_content(files, NextEntry)
    /\ first' = FALSE
    /\ written' = Append(written, NextEntry)
    /\ stack' = StackSkip
    /\ UNCHANGED <<args, files0, dirOrder, unreadable, env, pc, idx, any_success, matcher, res,
                   result, warnings, log, clipboard, launched, runs, call, ret>>

\* the loop body on a file that cannot be read: the header is already written
\* when read_to_string fails, and the error ends the traversal
WalkFileReadFailed ==
    /\ pc = "walk"
    /\ stack # <<>>
    /\ Admit(matcher, args.skip_hidden, NextEntry)
    /\ NextEntry # CurOutput
    /\ IsFile(NextEntry, files)
    /\ Canonical(NextEntry) \in unreadable
    /\ file_count' = file_count + 1
    /\ files' = AfterHeader(files, NextEntry)
    /\ res' = Err(TraversalFailed(<<Msg("WriteContentFailed", NextEntry),
                                    Msg("ReadContentsFailed", NextEntry),
                                    Msg("ReadFailed", NextEntry)>>))
    /\ pc' = "match"
    /\ UNCHANGED <<args, files0, dirOrder, unreadable, env, idx, any_success, matcher, stack,
                   first, result, warnings, written, log, clipboard, launched, runs, call, ret>>

\* after the loop: no file was counted
WalkEndNoFiles ==
    /\ pc = "walk"
    /\ stack = <<>>
    /\ file_count = 0
    /\ res' = Err(TraversalFailed(<<Msg("NoFilesFound", CurInput)>>))
    /\ pc' = "match"
    /\ UNCHANGED <<args, files, files0, dirOrder, unreadable, env, idx, any_success, matcher,
                   stack, file_count, first, result, warnings, written, log, clipboard, launched,
                   runs, call, ret>>

\* after the loop: Ok(())
WalkEndOk ==
    /\ pc = "walk"
    /\ stack = <<>>
    /\ file_count # 0
    /\ res' = Ok
    /\ pc' = "match"
    /\ UNCHANGED <<args, files, files0, dirOrder, unreadable, env, idx, any_success, matcher,
                   stack, file_count, first, result, warnings, written, log, clipboard, launched,
                   runs, call, ret>>

\* ------------------------------------------------------------------------
\* execute: clipboard, statistics, editor
\* ------------------------------------------------------------------------

\* largest content set_clipboard accepts, in bytes
MAX_CLIPBOARD_SIZE == 104857600

RemoveFile(fs, p) == [q \in DOMAIN fs \ {Canonical(p)} |-> fs[q]]

\* handle_clipboard: Clipboard::new fails without a system clipboard, whatever
\* the clipboard flag says
HandleClipboardInitFailed ==
    /\ pc = "clipboard"
    /\ ~env.clip_available
    /\ result' = Failed(<<Msg("ClipboardInitializationFailed", NoPath)>>)
    /\ pc' = "failed"
    /\ UNCHANGED <<args, files, files0, dirOrder, unreadable, env, idx, any_success, matcher,
                   stack, file_count, first, res, warnings, written, log, clipboard, launched,
                   runs, call, ret>>

\* handle_clipboard with the flag off
HandleClipboardSkipped ==
    /\ pc = "clipboard"
    /\ env.clip_available
    /\ ~args.clipboard
    /\ pc' = "stats"
    /\ UNCHANGED <<args, files, files0, dirOrder, unreadable, env, idx, any_success, matcher,
                   stack, file_count, first, res, result, warnings, written, log, clipboard,
                   launched, runs, call, ret>>

\* set_clipboard refuses a file of exactly the limit
set_clipboardBelowLimit(exists, readable, size, settable) ==
    IF ~exists THEN "MetadataFailed"
    ELSE IF size >= MAX_CLIPBOARD_SIZE THEN "ContentTooLarge"
    ELSE IF ~readable THEN "ReadFailed"
    ELSE IF ~settable THEN "SetFailed"
    ELSE "ok"

\* set_clipboard on a file that exists or not, of the given size in bytes,
\* that can be read or not, with a clipboard that takes the text or not: the
\* checks in the order of the code
set_clipboard(exists, readable, size, settable) ==
    IF ~exists THEN "MetadataFailed"
    ELSE IF size > MAX_CLIPBOARD_SIZE THEN "ContentTooLarge"
    ELSE IF ~readable THEN "ReadFailed"
    ELSE IF ~settable THEN "SetFailed"
    ELSE "ok"

\* handle_clipboard with the flag on: set_clipboard copies the output file
HandleClipboardSet ==
    /\ pc = "clipboard"
    /\ env.clip_available
    /\ args.clipboard
    /\ IsFile(CurOutput, files)
    /\ set_clipboard(TRUE, TRUE, Len(files[Canonical(CurOutput)]), TRUE) = "ok"
    /\ clipboard' = files[Canonical(CurOutput)]
    /\ pc' = "stats"
    /\ UNCHANGED <<args, files, files0, dirOrder, unreadable, env, idx, any_success, matcher,
                   stack, file_count, first, res, result, warnings, written, log, launched, runs,
                   call, ret>>

\* show_stats_section when the flag is on: the output file is read and counted
ShowStats ==
    /\ pc = "stats"
    /\ args.stats => IsFile(CurOutput, files)
    /\ pc' = "editor"
    /\ UNCHANGED <<args, files, files0, dirOrder, unreadable, env, idx, any_success, matcher,
                   stack, file_count, first, res, result, warnings, written, log, clipboard,
                   launched, runs, call, ret>>

\* handle_editor with the flag off
HandleEditorSkipped ==
    /\ pc = "editor"
    /\ ~args.editor
    /\ result' = Succeeded
    /\ pc' = "done"
    /\ UNCHANGED <<args, files, files0, dirOrder, unreadable, env, idx, any_success, matcher,
                   stack, file_count, first, res, warnings, written, log, clipboard, launched,
                   runs, call, ret>>

\* editor::open launches the CLI editor after the platform command in every case
EditorLaunchesBoth == <<"platform", "cli">>

\* the commands editor::open launches: the platform command, then the CLI
\* editor when the platform command did not exit successfully
EditorLaunches == IF env.platform = "ok" THEN <<"platform">> ELSE <<"platform", "cli">>

\* editor::open succeeds whatever the commands return
EditorOpensAlways == TRUE

\* editor::open succeeds
EditorOpens == env.platform = "ok" \/ env.cli = "ok"

\* handle_editor: the editor opened; the output is deleted when asked
HandleEditorOpened ==
    /\ pc = "editor"
    /\ args.editor
    /\ IsFile(CurOutput, files)
    /\ EditorOpens
    /\ launched' = launched \o EditorLaunches
    /\ files' = IF args.delete THEN RemoveFile(files, CurOutput) ELSE files
    /\ result' = Succeeded
    /\ pc' = "done"
    /\ UNCHANGED <<args, files0, dirOrder, unreadable, env, idx, any_success, matcher, stack,
                   file_count, first, res, warnings, written, log, clipboard, runs, call, ret>>

\* handle_editor: every editor attempt failed; nothing is deleted
HandleEditorFailed ==
    /\ pc = "editor"
    /\ args.editor
    /\ IsFile(CurOutput, files)
    /\ ~EditorOpens
    /\ launched' = launched \o EditorLaunches
    /\ result' = Failed(<<Msg("AllEditorAttemptsFailed", CurOutput),
                          Msg(IF env.cli = "fail" THEN "EditorProcessFailed"
                              ELSE "EditorLaunchFailed", CurOutput)>>)
    /\ pc' = "failed"
    /\ UNCHANGED <<args, files, files0, dirOrder, unreadable, env, idx, any_success, matcher,
                   stack, file_count, first, res, warnings, written, log, clipboard, runs, call,
                   ret>>

\* execute is called again, with the same arguments, after a run that
\* succeeded: the files, the clipboard and the editor stay as the run left them
Rerun ==
    /\ pc = "done"
    /\ result = Succeeded
    /\ runs < MaxRuns
    /\ runs' = runs + 1
    /\ files0' = files
    /\ pc' = "start"
    /\ idx' = 1
    /\ any_success' = FALSE
    /\ matcher' = NoMatcher
    /\ stack' = <<>>
    /\ file_count' = 0
    /\ first' = TRUE
    /\ res' = Ok
    /\ result' = Running
    /\ warnings' = <<>>
    /\ written' = <<>>
    /\ log' = <<>>
    /\ UNCHANGED <<args, files, dirOrder, unreadable, env, clipboard, launched, call, ret>>

\* ------------------------------------------------------------------------
\* Specification
\* ------------------------------------------------------------------------

Next ==
    \/ Normalize
    \/ LoopBody
    \/ LoopEndNoSuccess
    \/ LoopEndSuccess
    \/ TraversalOk
    \/ TraversalWarn
    \/ TraversalAbort
    \/ ValidateOk
    \/ ValidateFail
    \/ BuildMatcherOk
    \/ BuildMatcherFail
    \/ OpenOutput
    \/ WalkFiltered
    \/ WalkSkipOutput
    \/ WalkDirectory
    \/ WalkEntryError
    \/ WalkFile
    \/ WalkFileReadFailed
    \/ WalkEndNoFiles
    \/ WalkEndOk
    \/ HandleClipboardInitFailed
    \/ HandleClipboardSkipped
    \/ HandleClipboardSet
    \/ ShowStats
    \/ HandleEditorSkipped
    \/ HandleEditorOpened
    \/ HandleEditorFailed
    \/ Rerun

Spec == Init /\ [][Next]_vars

\* the variables have the shapes the definitions assume
TypeOK ==
    /\ pc \in {"start", "loop", "validate", "matcher", "open", "walk", "match", "clipboard",
               "stats", "editor", "done", "failed"}
    /\ idx \in 1..(Len(args.input_paths) + 1)
    /\ any_success \in BOOLEAN
    /\ first \in BOOLEAN
    /\ file_count \in Nat
    /\ result.status \in {"running", "ok", "err"}
    /\ dirOrder \in {"fwd", "rev"}
    /\ runs \in 1..MaxRuns

\* ------------------------------------------------------------------------
\* Library functions called on their own, as the unit tests call them
\* ------------------------------------------------------------------------

\* the text of the file given to set_clipboard
NewText == <<"n", "e", "w">>

\* set_clipboard: files around the size limit, missing or unreadable
SetClipboardCalls ==
    [fn : {"set_clipboard"}, exists : BOOLEAN, readable : BOOLEAN, settable : BOOLEAN,
     size : {0, 1, MAX_CLIPBOARD_SIZE - 1, MAX_CLIPBOARD_SIZE, MAX_CLIPBOARD_SIZE + 1,
             2 * MAX_CLIPBOARD_SIZE}]

\* largest magnitude of the run of numbers given to format_number
MaxNumber == 1100

\* format_number: every number up to MaxNumber either side of zero, and the
\* larger ones of the unit tests
FormatNumberCalls ==
    [fn : {"format_number"},
     n : (-MaxNumber..MaxNumber) \cup {12345, -12345, 100000, -100000, 999999, -999999,
                                       1234567, -1234567, 1234567890, -1234567890}]

\* editor::open: a file that exists and a path that does not
OpenCalls == [fn : {"open"}, path : {f_a, d_missing}]

\* longest path text given to should_exclude
MaxPathLen == 3

\* the characters of those path texts
PathChars == {"a", "A", "b", "/"}

\* the patterns given to should_exclude: in either case, and the empty one
SubstringPatterns == {<<>>, <<"a">>, <<"A">>, <<"a", "b">>, <<"B">>, <<"/", "A">>}

\* should_exclude: every path text up to MaxPathLen characters with every list
\* of up to MaxCli patterns
ShouldExcludeCalls ==
    [fn : {"should_exclude"}, path : SeqsUpTo(PathChars, MaxPathLen),
     patterns : SeqsUpTo(SubstringPatterns, MaxCli)]

InitLib ==
    /\ args = RunArgs(<<DotPath>>, Some(f_temp), <<>>, TRUE, FALSE, FALSE, FALSE, FALSE)
    /\ files = InitialFiles(DefaultContent, NoIgnoreFile, FALSE)
    /\ dirOrder = "fwd"
    /\ unreadable = {}
    /\ InitRest
    /\ ret = NoCall
    /\ \/ call \in SetClipboardCalls /\ env = DefaultEnv
       \/ call \in FormatNumberCalls /\ env = DefaultEnv
       \/ call \in ShouldExcludeCalls /\ env = DefaultEnv
       \/ /\ call \in OpenCalls
          /\ env \in [clip_available : {TRUE}, platform : {"ok", "fail", "nospawn"},
                      cli : {"ok", "fail", "nospawn"}]

\* Clipboard::set_clipboard
CallSetClipboard ==
    /\ call.fn = "set_clipboard"
    /\ ret = NoCall
    /\ ret' = [fn |-> call.fn,
               out |-> set_clipboard(call.exists, call.readable, call.size, call.settable)]
    /\ clipboard' = IF ret'.out = "ok" THEN NewText ELSE clipboard
    /\ UNCHANGED <<args, files, files0, dirOrder, unreadable, env, pc, idx, any_success,
                   matcher, stack, file_count, first, res, result, warnings, written, log,
                   launched, runs, call>>

DigitChars == <<"0", "1", "2", "3", "4", "5", "6", "7", "8", "9">>

\* the decimal digits of a number that is not negative
RECURSIVE Digits(_)
Digits(n) ==
    IF n < 10 THEN <<DigitChars[n + 1]>>
    ELSE Digits(n \div 10) \o <<DigitChars[(n % 10) + 1]>>

\* i64::to_string
to_string(n) == IF n < 0 THEN <<"-">> \o Digits(-n) ELSE Digits(n)

\* the loop of format_number from the character at index i (from 0) on
RECURSIVE FormatFrom(_, _)
FormatFrom(s, i) ==
    IF i >= Len(s) THEN <<>>
    ELSE (IF i > 0 /\ (Len(s) - i) % 3 = 0 THEN <<",">> ELSE <<>>)
         \o <<s[i + 1]>> \o FormatFrom(s, i + 1)

\* format_number
format_number(n) ==
    IF Len(to_string(n)) <= 3 THEN to_string(n) ELSE FormatFrom(to_string(n), 0)

\* utils::format_number
CallFormatNumber ==
    /\ call.fn = "format_number"
    /\ ret = NoCall
    /\ ret' = [fn |-> call.fn, out |-> format_number(call.n)]
    /\ UNCHANGED <<args, files, files0, dirOrder, unreadable, env, pc, idx, any_success,
                   matcher, stack, file_count, first, res, result, warnings, written, log,
                   clipboard, launched, runs, call>>

\* editor::open on a path that cannot be canonicalized: nothing is launched
CallOpenNoPath ==
    /\ call.fn = "open"
    /\ ret = NoCall
    /\ ~PathExists(call.path, files)
    /\ ret' = [fn |-> call.fn, out |-> "CanonicalizeFailed"]
    /\ UNCHANGED <<args, files, files0, dirOrder, unreadable, env, pc, idx, any_success,
                   matcher, stack, file_count, first, res, result, warnings, written, log,
                   clipboard, launched, runs, call>>

\* editor::open on a path that exists
CallOpen ==
    /\ call.fn = "open"
    /\ ret = NoCall
    /\ PathExists(call.path, files)
    /\ launched' = launched \o EditorLaunches
    /\ ret' = [fn |-> call.fn, out |-> IF EditorOpens THEN "ok" ELSE "AllEditorAttemptsFailed"]
    /\ UNCHANGED <<args, files, files0, dirOrder, unreadable, env, pc, idx, any_success,
                   matcher, stack, file_count, first, res, result, warnings, written, log,
                   clipboard, runs, call>>

\* char::to_lowercase on the letters of the texts tried
LowerChar(c) == CASE c = "A" -> "a" [] c = "B" -> "b" [] OTHER -> c

\* str::to_lowercase leaves the text as it is
to_lowercaseKept(s) == s

\* str::to_lowercase
to_lowercase(s) == [i \in 1..Len(s) |-> LowerChar(s[i])]

\* should_exclude on the string form of a path
should_exclude(path_str, patterns) ==
    IF patterns = <<>> THEN FALSE
    ELSE \E i \in DOMAIN patterns :
            ContainsSub(to_lowercase(path_str), to_lowercase(patterns[i]))

\* filter::should_exclude
CallShouldExclude ==
    /\ call.fn = "should_exclude"
    /\ ret = NoCall
    /\ ret' = [fn |-> call.fn, out |-> should_exclude(call.path, call.patterns)]
    /\ UNCHANGED <<args, files, files0, dirOrder, unreadable, env, pc, idx, any_success,
                   matcher, stack, file_count, first, res, result, warnings, written, log,
                   clipboard, launched, runs, call>>

NextLib ==
    \/ CallSetClipboard
    \/ CallFormatNumber
    \/ CallOpenNoPath
    \/ CallOpen
    \/ CallShouldExclude

SpecLib == InitLib /\ [][NextLib]_vars

\* ------------------------------------------------------------------------
\* Vocabulary of the properties
\* ------------------------------------------------------------------------

\* the content of the output file, empty when there is none
Artifact == IF IsFile(CurOutput, files) THEN files[Canonical(CurOutput)] ELSE <<>>

\* traverse has just returned Ok for the current input root
TraversalSucceeded == pc = "match" /\ res.ok

\* the current traversal has opened the output and is walking or has ended
TraversalOpened == pc = "walk" \/ (pc = "match" /\ matcher.ok /\ PathExists(CurInput, files))

Count(seq, x) == Cardinality({i \in DOMAIN seq : seq[i] = x})

InSeq(seq, x) == \E i \in DOMAIN seq : seq[i] = x

\* the text has the line hdr
HasLine(text, hdr) ==
    \/ IsPrefix(hdr \o <<"\n">>, text)
    \/ ContainsSub(text, <<"\n">> \o hdr \o <<"\n">>)

\* path f lies strictly below directory dir
Under(f, dir) == PathStartsWith(f, dir) /\ f # dir

\* the entries the walk passes on its way from the input root down to f, both included
EntriesDownTo(f) ==
    {[abs |-> f.abs, names |-> SubSeq(f.names, 1, k)] : k \in Len(CurInput.names)..Len(f.names)}

\* the directories above f, from the top of the file system down
DirsAbove(f) ==
    {[abs |-> f.abs, names |-> SubSeq(f.names, 1, k)] : k \in 1..(Len(f.names) - 1)}

\* the entry is excluded by the matcher, or hidden while hidden entries are skipped
Rejected(e) == is_excluded(matcher, e) \/ (args.skip_hidden /\ is_hidden(e))

\* some exclusion rule of the matcher (a rule without "!") matches the path
SomeExclusionRuleMatches(f) ==
    \E i \in DOMAIN matcher.globs :
        /\ ~matcher.globs[i].is_whitelist
        /\ GlobMatch(matcher.globs[i].actual, GitignoreStrip(BuilderRoot(matcher.root), Display(f)))

\* ------------------------------------------------------------------------
\* C1
\* ------------------------------------------------------------------------

\* C1 as stated: after a successful traversal of an input root, every regular
\* file under that root that no exclusion rule matches and that is not hidden
\* (when hidden entries are skipped) has exactly one record in the output.
C1_AsStated ==
    TraversalSucceeded =>
        \A f \in DOMAIN files :
            (/\ Under(f, CurInput)
             /\ ~SomeExclusionRuleMatches(f)
             /\ (args.skip_hidden => ~is_hidden(f)))
            => Count(written, f) = 1 /\ HasLine(Artifact, HeaderLine(CurRoot, f))

\* C1, amended: after a successful traversal of an input root, every regular
\* file under that root other than the output path itself, such that neither
\* the file nor any directory from the input root down to it is excluded by the
\* matcher or hidden (when hidden entries are skipped), has exactly one record
\* in the output; and no file has more than one record.
C1_Exhaustive ==
    TraversalSucceeded =>
        /\ \A f \in DOMAIN files :
              (/\ Under(f, CurInput)
               /\ f # CurOutput
               /\ \A e \in EntriesDownTo(f) : ~Rejected(e))
              => Count(written, f) = 1 /\ HasLine(Artifact, HeaderLine(CurRoot, f))
        /\ \A i, j \in DOMAIN written : written[i] = written[j] => i = j

\* a traversal succeeded that wrote a file of a subdirectory and left out a
\* file below a rejected directory
C1_Witness ==
    /\ TraversalSucceeded
    /\ \E f \in DOMAIN files : Len(f.names) > Len(CurInput.names) + 1 /\ InSeq(written, f)
    /\ \E f \in DOMAIN files :
          /\ Under(f, CurInput)
          /\ ~Rejected(f)
          /\ \E e \in EntriesDownTo(f) : Rejected(e)
          /\ ~InSeq(written, f)

\* ------------------------------------------------------------------------
\* C2
\* ------------------------------------------------------------------------

\* C2: whatever input root the walk starts from, no file that lies below a
\* directory the matcher excludes gets a record, an input root inside the
\* excluded directory included.
C2_NoRecordBelowExcludedDir ==
    TraversalOpened =>
        \A i \in DOMAIN written :
            \A d \in DirsAbove(written[i]) : ~is_excluded(matcher, d)

\* ------------------------------------------------------------------------
\* C3
\* ------------------------------------------------------------------------

\* C3: however the output and input paths are spelled, the output file never
\* gets a record of its own: no written entry denotes the same file as the
\* output path.
C3_OutputNeverARecord ==
    TraversalOpened =>
        \A i \in DOMAIN written : Canonical(written[i]) # Canonical(CurOutput)

\* ------------------------------------------------------------------------
\* C4
\* ------------------------------------------------------------------------

\* the error chain has a link of this kind
HasKind(chain, kind) == \E i \in DOMAIN chain : chain[i].kind = kind

\* C4: with several input roots, a root that yields no file does not abort the
\* run: the run never fails with that root's NoFilesFound error, only with
\* "no files in any directory" once every root came out empty.
C4_EmptyRootIsAWarning ==
    (Len(args.input_paths) > 1 /\ result.status = "err")
        => ~HasKind(result.err, "NoFilesFound")

\* ------------------------------------------------------------------------
\* C5
\* ------------------------------------------------------------------------

\* C5: when the run reaches its end successfully, the artifact holds the
\* record of every file written for every root that had matches: a later root
\* removes nothing an earlier root wrote.
C5_AllRootsInArtifact ==
    pc = "clipboard" =>
        \A i \in DOMAIN log :
            log[i].ok =>
                \A j \in DOMAIN log[i].written :
                    HasLine(Artifact, HeaderLine(CurRoot, log[i].written[j]))

\* ------------------------------------------------------------------------
\* C6
\* ------------------------------------------------------------------------

\* the text of the first k records of ws in the stated format: records joined
\* by one newline, each the header line, a newline, the content as it was
\* read with trailing whitespace trimmed, and one newline. The output file,
\* when it is itself an entry, is read after its own header was written.
RECURSIVE RecordsText(_, _)
RecordsText(ws, k) ==
    IF k = 0 THEN <<>>
    ELSE LET head == RecordsText(ws, k - 1) \o (IF k = 1 THEN <<>> ELSE <<"\n">>)
                         \o HeaderLine(CurRoot, ws[k]) \o <<"\n">>
         IN  IF Canonical(ws[k]) = Canonical(CurOutput)
             THEN head \o TrimEnd(head) \o <<"\n">>
             ELSE head \o TrimEnd(files[Canonical(ws[k])]) \o <<"\n">>

\* the artifact has two or more blank lines right before the header of record k
DoubleBlankBefore(k) ==
    ContainsSub(Artifact, <<"\n", "\n", "\n">> \o HeaderLine(CurRoot, written[k]) \o <<"\n">>)

\* record k is of a file other than the output whose content is empty or all whitespace
BlankContent(k) ==
    /\ Canonical(written[k]) # Canonical(CurOutput)
    /\ TrimEnd(files[Canonical(written[k])]) = <<>>

\* the artifact has the records in the stated format, without a leading blank line
StatedFormat ==
    /\ Artifact = RecordsText(written, Len(written))
    /\ Artifact # <<>> => Artifact[1] # "\n" /\ Artifact[Len(Artifact)] = "\n"

\* C6 as stated: the artifact of one successful traversal is its records in
\* the stated format, with no leading blank line and never two blank lines
\* between records, also after an empty or whitespace-only file.
C6_AsStated ==
    TraversalSucceeded =>
        /\ StatedFormat
        /\ \A k \in 2..Len(written) : ~DoubleBlankBefore(k)

\* C6, amended: the artifact of one successful traversal is its records in
\* the stated format, with no leading blank line and nothing after the last
\* record's newline; two blank lines precede a record's header exactly when
\* the record before it is of an empty or whitespace-only file.
C6_OutputFormat ==
    TraversalSucceeded =>
        /\ StatedFormat
        /\ \A k \in 2..Len(written) :
              Canonical(written[k - 1]) # Canonical(CurOutput)
                  => (DoubleBlankBefore(k) <=> BlankContent(k - 1))

\* a traversal succeeded with a record after an empty or whitespace-only file
\* and a record whose content had trailing whitespace to trim
C6_Witness ==
    /\ TraversalSucceeded
    /\ \E k \in 2..Len(written) : BlankContent(k - 1)
    /\ \E k \in 1..Len(written) :
          /\ Canonical(written[k]) # Canonical(CurOutput)
          /\ TrimEnd(files[Canonical(written[k])]) # <<>>
          /\ TrimEnd(files[Canonical(written[k])]) # files[Canonical(written[k])]

\* ------------------------------------------------------------------------
\* C7
\* ------------------------------------------------------------------------

\* the lines of the ignore file the run started with
IgnoreLinesAsGiven ==
    IF f_ignore \in DOMAIN files0 THEN SplitLines(files0[f_ignore]) ELSE <<>>

\* the rules as the user gave them: ignore-file lines, then CLI patterns
RulesAsGiven == IgnoreLinesAsGiven \o args.exclude

\* the names a file directly under foo/ may have, other than keep.txt
OtherNames == {n_a, n_b, n_d, n_cfg, n_sub, n_temp, n_ignore}

\* ExcludeMatcher::new has just returned the matcher of the current traversal
MatcherBuilt == pc = "open" /\ matcher.ok

\* C7: with the rules "foo/*" then "!foo/keep.txt", in that order, the matcher
\* includes foo/keep.txt and excludes every other file directly under foo/,
\* and a successful traversal of the root writes keep.txt and no other file of foo/.
C7_NegationPrecedence ==
    RulesAsGiven = <<p_foo_star, p_not_keep>> =>
        /\ MatcherBuilt =>
              /\ ~is_excluded(matcher, f_keep)
              /\ \A n \in OtherNames : is_excluded(matcher, PathJoin(d_foo, n))
        /\ (TraversalSucceeded /\ CurInput = d_r) =>
              /\ InSeq(written, f_keep)
              /\ \A i \in DOMAIN written : Under(written[i], d_foo) => written[i] = f_keep

\* a traversal of the root succeeded under the two rules and wrote keep.txt
C7_Witness ==
    /\ matcher.ok
    /\ RulesAsGiven = <<p_foo_star, p_not_keep>>
    /\ TraversalSucceeded
    /\ CurInput = d_r
    /\ InSeq(written, f_keep)
    /\ ~InSeq(written, f_b)

\* ------------------------------------------------------------------------
\* C8
\* ------------------------------------------------------------------------

\* rule i of the rules as given matches the path
RuleMatches(i, path) ==
    LET g == ParseLine(RulesAsGiven[i])
    IN  /\ g.tag = "glob"
        /\ GlobMatch(g.actual, GitignoreStrip(Display(d_r), Display(path)))
        /\ (~g.is_only_dir \/ IsDir(path))

\* the last rule as given that matches the path is an exclusion
LastMatchExcludes(path) ==
    \E i \in DOMAIN RulesAsGiven :
        /\ RuleMatches(i, path)
        /\ ~ParseLine(RulesAsGiven[i]).is_whitelist
        /\ \A j \in (i + 1)..Len(RulesAsGiven) : ~RuleMatches(j, path)

\* the paths the rules are tried on
TestPaths == Dirs \cup {f_a, f_keep, f_b, f_d, f_cfg, f_ignore, f_temp}

\* C8: the matcher decides by the last matching rule of the list made of the
\* ignore-file lines followed by the CLI patterns: a CLI "!build" re-includes
\* what the ignore file's "build" excludes, and an ignore-file "!build" does not
\* override a CLI "build".
C8_RuleOrder ==
    MatcherBuilt =>
        /\ \A p \in TestPaths : is_excluded(matcher, p) <=> LastMatchExcludes(p)
        /\ (IgnoreLinesAsGiven = <<p_build>> /\ args.exclude = <<p_not_build>>)
              => ~is_excluded(matcher, d_build)
        /\ (IgnoreLinesAsGiven = <<p_not_build>> /\ args.exclude = <<p_build>>)
              => is_excluded(matcher, d_build)

\* a traversal succeeded in which a CLI "!build" re-included the directory the
\* ignore file excludes, and wrote the file below it
C8_Witness ==
    /\ matcher.ok
    /\ IgnoreLinesAsGiven = <<p_build>>
    /\ args.exclude = <<p_not_build>>
    /\ TraversalSucceeded
    /\ InSeq(written, f_d)

\* ------------------------------------------------------------------------
\* C9
\* ------------------------------------------------------------------------

\* C9: when any input root does not exist, the first of several or not, the
\* run fails with PathNotFound and the output file is neither created nor
\* truncated nor written: the files stay as they were.
C9_MissingRootNothingWritten ==
    (\E i \in DOMAIN args.input_paths : ~PathExists(args.input_paths[i], files0)) =>
        /\ files = files0
        /\ result.status = "err" => HasKind(result.err, "PathNotFound")

\* ------------------------------------------------------------------------
\* C10
\* ------------------------------------------------------------------------

\* the positions in the rules as given of the patterns that do not compile
InvalidRules == {i \in DOMAIN RulesAsGiven : ParseLine(RulesAsGiven[i]).tag = "error"}

\* the first of them
FirstInvalidRule == CHOOSE i \in InvalidRules : \A j \in InvalidRules : i <= j

\* C10: when a pattern of the combined rule list does not compile, the run
\* fails before any writing, and the error names that pattern and its
\* position in the combined list.
C10_PatternErrorBeforeWriting ==
    InvalidRules # {} =>
        /\ files = files0
        /\ pc \notin {"clipboard", "editor", "done"}
        /\ result.status = "err" =>
              \E k \in DOMAIN result.err :
                  /\ result.err[k].pattern = RulesAsGiven[FirstInvalidRule]
                  /\ result.err[k].index = FirstInvalidRule

\* ------------------------------------------------------------------------
\* C11
\* ------------------------------------------------------------------------

\* C11: the matcher build is all or nothing: when any rule line, of the
\* ignore file or of the CLI patterns, does not compile, no matcher is
\* returned; a matcher is never built from the valid lines only.
C11_BuildAllOrNothing ==
    InvalidRules # {} => ~matcher.ok

\* ------------------------------------------------------------------------
\* C12
\* ------------------------------------------------------------------------

\* the traversal of the current root has just failed on reading a file's content
ReadJustFailed == pc = "match" /\ ~res.ok /\ HasKind(res.err, "ReadFailed")

\* C12: when the content of an admitted file cannot be read, the traversal
\* ends at that file with an error naming its path, the file gets no record
\* as if it had been read, no later file is processed and the run does not
\* report success: after such a failure no other root is traversed and the
\* run does not reach the steps that follow a successful loop.
C12_ContentErrorIsFatal ==
    /\ \A i \in DOMAIN written : Canonical(written[i]) \notin unreadable
    /\ ReadJustFailed =>
          \E k \in DOMAIN res.err :
              /\ res.err[k].kind = "ReadFailed"
              /\ Canonical(res.err[k].path) \in unreadable
    /\ \A i \in DOMAIN log : HasKind(log[i].err, "ReadFailed") => pc \in {"loop", "failed"}

\* ------------------------------------------------------------------------
\* C13
\* ------------------------------------------------------------------------

\* C13: a directory entry that cannot be accessed during the walk is skipped
\* and the traversal goes on: no traversal fails with the walk's access error.
C13_EntryErrorIsSoft ==
    (pc = "match" /\ ~res.ok) => ~HasKind(res.err, "WalkFailed")

\* ------------------------------------------------------------------------
\* C14
\* ------------------------------------------------------------------------

\* the walk of the current root ran to its end: Ok, or NoFilesFound
WalkCompleted == pc = "match" /\ (res.ok \/ HasKind(res.err, "NoFilesFound"))

\* the regular files under the current root that are not the output file and
\* that the filter lets the walk reach
AdmissibleFiles ==
    {f \in DOMAIN files :
        /\ Under(f, CurInput)
        /\ f # Canonical(CurOutput)
        /\ \A e \in EntriesDownTo(f) : ~Rejected(e)}

\* C14: a traversal that ran to its end fails with NoFilesFound naming its
\* root if and only if the root has no regular file to admit (none at all, or
\* each excluded, hidden or the output file itself); otherwise it succeeds
\* and has written a record.
C14_NoFilesFound ==
    WalkCompleted =>
        /\ HasKind(res.err, "NoFilesFound") <=> AdmissibleFiles = {}
        /\ \A k \in DOMAIN res.err : res.err[k].kind = "NoFilesFound" => res.err[k].path = CurInput
        /\ res.ok => written # <<>>

\* ------------------------------------------------------------------------
\* C15
\* ------------------------------------------------------------------------

\* the bytes the roots of this run wrote, all roots together
RECURSIVE BytesOfRun(_)
BytesOfRun(k) ==
    IF k = 0 THEN 0 ELSE BytesOfRun(k - 1) + Len(log[k].artifact)

\* C15: the output is truncated at the start of a run and never appended to
\* across runs: when a run that follows a successful run has finished its
\* roots, the artifact holds exactly the records of this run, every record of
\* every root of it, and not one byte more than this run wrote.
C15_TruncatePerRun ==
    (runs > 1 /\ pc = "clipboard") =>
        /\ \A i \in DOMAIN log :
              log[i].ok =>
                  \A j \in DOMAIN log[i].written :
                      HasLine(Artifact, HeaderLine(CurRoot, log[i].written[j]))
        /\ Len(Artifact) <= BytesOfRun(Len(log)) + Len(log)

\* ------------------------------------------------------------------------
\* C16
\* ------------------------------------------------------------------------

\* the final component of the path starts with "."
HiddenName(p) == p.names # <<>> /\ p.names[Len(p.names)][1] = "."

\* the admission rule: not excluded, and not hidden unless hidden entries are kept
ShouldAdmit(e) == ~is_excluded(matcher, e) /\ (~args.skip_hidden \/ ~HiddenName(e))

\* C16: an entry is hidden iff its final component starts with "."; the walk
\* admits an entry iff the matcher does not exclude it and it is not hidden
\* or hidden entries are kept; a rejected directory is never descended into:
\* every file written, and every entry the walk has listed, lies below
\* admitted directories only, and a successful traversal has written every
\* file that the rule admits together with the directories above it.
C16_EntryAdmission ==
    /\ pc = "walk" =>
          \A i \in DOMAIN stack : \A j \in DOMAIN stack[i] :
              \A e \in EntriesDownTo(stack[i][j]) : e # stack[i][j] => ShouldAdmit(e)
    /\ TraversalSucceeded =>
          /\ \A p \in TestPaths : is_hidden(p) <=> HiddenName(p)
          /\ \A i \in DOMAIN written : \A e \in EntriesDownTo(written[i]) : ShouldAdmit(e)
          /\ \A f \in DOMAIN files :
                (/\ Under(f, CurInput)
                 /\ f # CurOutput
                 /\ \A e \in EntriesDownTo(f) : ShouldAdmit(e))
                => InSeq(written, f)

\* a traversal succeeded that kept hidden entries and wrote the file of a
\* hidden directory, while a rule kept it out of an excluded directory
C16_Witness ==
    /\ TraversalSucceeded
    /\ ~args.skip_hidden
    /\ InSeq(written, f_cfg)
    /\ is_excluded(matcher, d_build)
    /\ ~InSeq(written, f_d)

\* ------------------------------------------------------------------------
\* C17
\* ------------------------------------------------------------------------

\* the number of leading components two paths share
RECURSIVE CommonLen(_, _)
CommonLen(a, b) ==
    IF a = <<>> \/ b = <<>> THEN 0
    ELSE IF a[1] = b[1] THEN 1 + CommonLen(Tail(a), Tail(b))
    ELSE 0

\* the path of e relative to the directory base, with ".." for every
\* component of base that e does not share
RelativeTo(base, e) ==
    LET c == CommonLen(base.names, e.names)
    IN  JoinWith([i \in 1..(Len(base.names) - c) |-> <<".", ".">>] \o Drop(e.names, c), <<"/">>)

\* the artifact has the header line "==> <text>"
HasHeader(text) == HasLine(Artifact, <<"=", "=", ">", " ">> \o text)

\* the entry lies under the exclusion root, component by component
UnderRoot(e) ==
    /\ e.abs = CurRoot.abs
    /\ Len(e.names) > Len(CurRoot.names)
    /\ SubSeq(e.names, 1, Len(CurRoot.names)) = CurRoot.names

SameBuildInputs == runs' = runs /\ args'.root = args.root /\ args'.exclude = args.exclude

\* the two matchers give the same answer on every path tried
SameAnswers(m1, m2) == \A p \in TestPaths : is_excluded(m1, p) <=> is_excluded(m2, p)

RECURSIVE RecordsOfRun(_)
RecordsOfRun(k) ==
    IF k = 0 THEN 0 ELSE RecordsOfRun(k - 1) + Len(log[k].written)

\* C19: the file count of a successful call is the number of records
\* written, over all its input roots together, and what is skipped (excluded
\* or hidden entries, directories, the output file itself) does not count.
C19_FileCount ==
    /\ TraversalSucceeded =>
          /\ file_count = Len(written)
          /\ file_count = Cardinality(AdmissibleFiles)
    /\ pc = "clipboard" => file_count = RecordsOfRun(Len(log))

\* ------------------------------------------------------------------------
\* C20
\* ------------------------------------------------------------------------

\* C20: with the clipboard flag off the run does not depend on the system
\* clipboard: once a traversal has succeeded, the run does not fail at the
\* clipboard step and goes on to the stats and editor steps.
C20_ClipboardIndependence ==
    (~args.clipboard /\ any_success) =>
        ~(result.status = "err" /\ HasKind(result.err, "ClipboardInitializationFailed"))

\* ------------------------------------------------------------------------
\* C21
\* ------------------------------------------------------------------------

\* this step removes the output file
OutputDeleted == IsFile(CurOutput, files) /\ ~IsFile(CurOutput, files')

\* C21: the delete flag is never set without the editor flag; a step of a run
\* removes the output file only when both flags are set, and only as the end
\* of an editor step in which a launched editor command exited successfully;
\* when every editor attempt failed the output file is still there.
C21_DeleteOnlyAfterEditor ==
    /\ [](args.delete => args.editor)
    /\ []((result.status = "err" /\ HasKind(result.err, "AllEditorAttemptsFailed"))
            => IsFile(CurOutput, files))
    /\ [][OutputDeleted =>
            /\ args.editor /\ args.delete
            /\ pc = "editor" /\ pc' = "done" /\ result' = Succeeded
            /\ Len(launched') > Len(launched)
            /\ (env.platform = "ok" \/ env.cli = "ok")]_vars

\* a run with both flags ended after the editor opened, and its output is gone
C21_Witness ==
    /\ pc = "done" /\ args.editor /\ args.delete
    /\ launched # <<>>
    /\ ~IsFile(CurOutput, files)

\* ------------------------------------------------------------------------
\* C22
\* ------------------------------------------------------------------------

\* set_clipboard has returned
SetClipboardReturned == call.fn = "set_clipboard" /\ ret # NoCall

\* C22: set_clipboard on an existing file fails with ContentTooLarge exactly
\* when the file is larger than MAX_CLIPBOARD_SIZE, a file of exactly that
\* size being accepted; a missing file never gives ContentTooLarge; and when
\* the call fails for the size, or for a missing or unreadable file, the
\* clipboard holds what it held before the call.
C22_ClipboardSizeLimit ==
    SetClipboardReturned =>
        /\ ret.out = "ContentTooLarge" <=> (call.exists /\ call.size > 100 * 1024 * 1024)
        /\ (call.exists /\ call.readable /\ call.settable /\ call.size = 100 * 1024 * 1024)
              => (ret.out = "ok" /\ clipboard = NewText)
        /\ ret.out \in {"ContentTooLarge", "MetadataFailed", "ReadFailed"} => clipboard = <<>>
        /\ (~call.exists \/ ~call.readable) => ret.out # "ok"

\* a file one byte over the limit was refused
C22_Witness ==
    /\ SetClipboardReturned
    /\ call.size = 100 * 1024 * 1024 + 1
    /\ ret.out = "ContentTooLarge"

\* ------------------------------------------------------------------------
\* C23
\* ------------------------------------------------------------------------

\* digits in groups of three from the right, "," between the groups
RECURSIVE GroupThrees(_)
GroupThrees(d) ==
    IF Len(d) <= 3 THEN d
    ELSE GroupThrees(SubSeq(d, 1, Len(d) - 3)) \o <<",">> \o SubSeq(d, Len(d) - 2, Len(d))

\* C23: format_number(n) is the digits of |n| in groups of three from the
\* right with "," between the groups, after "-" when n is negative; it never
\* starts with "," and never has "," right after the sign.
C23_FormatNumber ==
    (call.fn = "format_number" /\ ret # NoCall) =>
        /\ ret.out = IF call.n < 0 THEN <<"-">> \o GroupThrees(Digits(-call.n))
                     ELSE GroupThrees(Digits(call.n))
        /\ ret.out[1] # ","
        /\ ret.out[1] = "-" => ret.out[2] # ","

\* ------------------------------------------------------------------------
\* C24
\* ------------------------------------------------------------------------

\* editor::open has returned
OpenReturned == call.fn = "open" /\ ret # NoCall

\* C24: editor::open on a path that cannot be canonicalized fails and has
\* launched nothing; on a path that can, it returns Ok exactly when the
\* platform command exits successfully or the CLI editor does, the CLI editor
\* being launched exactly when the platform command could not be spawned or
\* exited with a failure, and never when the platform command succeeded.
C24_EditorFallback ==
    OpenReturned =>
        /\ ~PathExists(call.path, files) => (ret.out # "ok" /\ launched = <<>>)
        /\ PathExists(call.path, files) =>
              /\ ret.out = "ok" <=> (env.platform = "ok" \/ env.cli = "ok")
              /\ launched[1] = "platform"
              /\ InSeq(launched, "cli") <=> env.platform \in {"fail", "nospawn"}
              /\ env.platform = "ok" => launched = <<"platform">>

\* the platform command failed and the CLI editor opened the file
C24_Witness ==
    /\ OpenReturned
    /\ env.platform = "fail" /\ env.cli = "ok"
    /\ ret.out = "ok"
    /\ launched = <<"platform", "cli">>

\* ------------------------------------------------------------------------
\* C25
\* ------------------------------------------------------------------------

\* the step of execute a position belongs to
StepOf(p) ==
    CASE p = "start" -> 0
      [] p \in {"loop", "validate", "matcher", "open", "walk", "match"} -> 1
      [] p = "clipboard" -> 2
      [] p = "stats" -> 3
      [] p = "editor" -> 4
      [] p = "done" -> 5
      [] p = "failed" -> 6

Normalized(opt, default) == IF ~opt.some \/ opt.v = DotPath THEN Some(default) ELSE opt

SameLetter(c, d) == c = d \/ {c, d} \in {{"a", "A"}, {"b", "B"}}

\* the pattern occurs in the text at some position, case ignored
OccursIgnoringCase(pattern, text) ==
    \E k \in 0..(Len(text) - Len(pattern)) :
        \A j \in 1..Len(pattern) : SameLetter(pattern[j], text[k + j])

\* C27: should_exclude is true exactly when the list of patterns is not empty
\* and some pattern occurs in the string form of the path, case ignored; with
\* no pattern it is false for every path.
C27_ShouldExclude ==
    (call.fn = "should_exclude" /\ ret # NoCall) =>
        /\ ret.out <=> /\ call.patterns # <<>>
                       /\ \E i \in DOMAIN call.patterns :
                             OccursIgnoringCase(call.patterns[i], call.path)
        /\ call.patterns = <<>> => ~ret.out

\* a path in capitals was excluded by a pattern in small letters
C27_Witness ==
    /\ call.fn = "should_exclude" /\ ret # NoCall
    /\ call.path = <<"/", "A", "b">>
    /\ call.patterns = <<<<"B">>, <<"a", "b">>>>
    /\ ret.out

\* ------------------------------------------------------------------------
\* C28
\* ------------------------------------------------------------------------

\* the artifact right after a read failure: the records written before, then
\* the separator and the header of the file that could not be read
DanglingArtifact ==
    RecordsText(written, Len(written))
        \o (IF written = <<>> THEN <<>> ELSE <<"\n">>)
        \o HeaderLine(CurRoot, NextEntry) \o <<"\n">>

\* C28: when the content of an admitted file cannot be read, its separator
\* and header are already in the output: the artifact is the records written
\* before followed by that header with nothing after it, and the run aborts
\* with the artifact left so.
C28_DanglingHeader ==
    /\ ReadJustFailed => Artifact = DanglingArtifact
    /\ \A i \in DOMAIN log :
          HasKind(log[i].err, "ReadFailed") =>
              /\ pc = "failed" /\ HasKind(result.err, "ReadFailed")
              /\ Artifact = log[i].artifact

\* ------------------------------------------------------------------------
\* C29
\* ------------------------------------------------------------------------

\* the traversal of the current root has just failed
TraversalJustFailed == pc = "match" /\ ~res.ok

\* it failed before the output was opened: the input root is missing, or the
\* matcher could not be built
FailedBeforeOpen ==
    /\ TraversalJustFailed
    /\ HasKind(res.err, "PathNotFound") \/ HasKind(res.err, "MatcherCreationFailed")

\* the output was an empty file already when the run started
EmptyOutputBefore == IsFile(CurOutput, files0) /\ files0[Canonical(CurOutput)] = <<>>

RootRejected ==
    \/ args.skip_hidden /\ HiddenName(CurInput)
    \/ is_excluded(matcher, CurInput)

\* C30: the filter is applied to the root of the walk as to every entry: when
\* the input root is hidden and hidden entries are skipped, or a rule excludes
\* the input root itself, the walk lists nothing below it, no record is
\* written, and the traversal ends with NoFilesFound and an empty output.
C30_FilterAppliesToRoot ==
    /\ (pc = "walk" /\ RootRejected) =>
          /\ written = <<>> /\ file_count = 0 /\ Artifact = <<>>
          /\ stack \in {<< <<CurInput>> >>, <<>>}
    /\ (TraversalJustFailed /\ ~FailedBeforeOpen /\ RootRejected) =>
          /\ HasKind(res.err, "NoFilesFound")
          /\ written = <<>> /\ Artifact = <<>>
    /\ (TraversalSucceeded /\ matcher.ok) => ~RootRejected

\* the traversal of the hidden root /r/.git, which holds a file, ended with
\* NoFilesFound
C30_Witness ==
    /\ TraversalJustFailed /\ HasKind(res.err, "NoFilesFound")
    /\ CurInput = d_git /\ args.skip_hidden
    /\ IsFile(f_cfg, files)
    /\ written = <<>>

====
